---- MODULE Spec2Model ----
(***************************************************************************)
(* Model of the noai agent: the sandboxed tools of functions/functions.py, *)
(* the dispatcher call_function, and the loop run_agent_loop of main.py.   *)
(*                                                                         *)
(* Paths are sequences of component names.  An absolute path is the        *)
(* sequence of its components from the filesystem root; a path supplied by *)
(* the model service is relative unless its first element is "/".          *)
(* Strings that the code builds with f-strings are records holding the     *)
(* template and the values substituted into it.                            *)
(***************************************************************************)
EXTENDS Integers, Sequences, FiniteSets, TLC

VARIABLES
    fs,                    \* the filesystem: absolute path -> node
    root,                  \* os.environ["WORKING_DIR"], the boundary root
    spawned,               \* number of subprocesses created so far
    ncalls,                \* number of call_function invocations so far
    lastReq,               \* the function_call_part of the last invocation
    lastRes,               \* what that invocation returned or raised
    lastProc,              \* what the script of that invocation does once started
    lastReply,             \* what the last generate_content call returned or raised
    conversation_history,  \* main.py: the list of types.Content
    pc,                    \* position of run_agent_loop
    iter,                  \* iterations of the for loop started so far
    pending,               \* function calls of the current response not yet dispatched
    printed,               \* lines printed by run_agent_loop
    exitStatus             \* process exit status once main has returned, else -1

vars == <<fs, root, spawned, ncalls, lastReq, lastRes, lastProc, lastReply,
          conversation_history, pc, iter, pending, printed, exitStatus>>

toolVars == <<fs, root, spawned, ncalls, lastReq, lastRes, lastProc>>
loopVars == <<lastReply, conversation_history, pc, iter, pending, printed, exitStatus>>

(***************************************************************************)
(* Bounds and configuration                                                *)
(***************************************************************************)
\* FILE_CHARACTER_LIMIT of the environment
max_chars == 2

\* the max_iterations parameter of run_agent_loop
max_iterations == 2

\* the most function calls one model response carries
MaxCallsPerResponse == 2

\* the most dispatcher invocations explored by ToolSpec
MaxToolCalls == 2

\* what os.path.getsize reports for a directory (its inode size, not 0)
DirSize == 4096

\* a value of the argument mapping that is not a string (a number, a list)
NonString == <<"#nonstring">>

NoPath == <<"#none">>

(***************************************************************************)
(* os.path                                                                 *)
(***************************************************************************)
\* os.path.join(work_directory, p): an absolute p discards work_directory
join(wd, p) == IF p # <<>> /\ Head(p) = "/" THEN Tail(p) ELSE wd \o p

RECURSIVE NormFrom(_, _)
NormFrom(stack, rest) ==
    IF rest = <<>> THEN stack
    ELSE LET c == Head(rest) IN
         IF c = "." THEN NormFrom(stack, Tail(rest))
         ELSE IF c = ".."
              THEN NormFrom(IF stack = <<>> THEN <<>>
                            ELSE SubSeq(stack, 1, Len(stack) - 1), Tail(rest))
              ELSE NormFrom(Append(stack, c), Tail(rest))

\* os.path.abspath: lexical normalisation, symbolic links are NOT resolved
abspath(p) == NormFrom(<<>>, p)

\* os.path.commonpath of two absolute paths: the longest common component prefix
RECURSIVE commonpath(_, _)
commonpath(a, b) ==
    IF a = <<>> \/ b = <<>> \/ Head(a) # Head(b) THEN <<>>
    ELSE <<Head(a)>> \o commonpath(Tail(a), Tail(b))

dirname(p) == IF p = <<>> THEN <<>> ELSE SubSeq(p, 1, Len(p) - 1)

\* os.path.splitext applied to the last component
ExtOf(name) ==
    IF name \in {"a.py", "w.py"} THEN ".py"
    ELSE IF name \in {"f.txt", "s.txt", "n.txt"} THEN ".txt"
    ELSE ""

splitext(p) == IF p = <<>> THEN "" ELSE ExtOf(p[Len(p)])

(***************************************************************************)
(* The filesystem as the operating system resolves it                      *)
(***************************************************************************)
Dir == [kind |-> "dir", content |-> <<>>, target |-> <<>>]
File(c) == [kind |-> "file", content |-> c, target |-> <<>>]
Link(t) == [kind |-> "link", content |-> <<>>, target |-> t]

\* the path the kernel reaches, following every symbolic link on the way
RECURSIVE Walk(_, _, _, _)
Walk(f, cur, rest, fuel) ==
    IF rest = <<>> THEN cur
    ELSE LET nxt == Append(cur, Head(rest)) IN
         IF nxt \in DOMAIN f /\ f[nxt].kind = "link"
         THEN IF fuel = 0 THEN NoPath
              ELSE Walk(f, <<>>, f[nxt].target \o Tail(rest), fuel - 1)
         ELSE Walk(f, nxt, Tail(rest), fuel)

realpath(f, p) == Walk(f, <<>>, p, Cardinality(DOMAIN f))

exists(f, p) == realpath(f, p) \in DOMAIN f
isdir(f, p) == exists(f, p) /\ f[realpath(f, p)].kind = "dir"
isfile(f, p) == exists(f, p) /\ f[realpath(f, p)].kind = "file"

\* number of bytes of one character in UTF-8
ByteLen(ch) == IF ch = "e_acute" THEN 2 ELSE 1

RECURSIVE ByteSize(_)
ByteSize(s) == IF s = <<>> THEN 0 ELSE ByteLen(Head(s)) + ByteSize(Tail(s))

\* os.path.getsize of an existing path
getsize(f, p) ==
    IF isdir(f, p) THEN DirSize ELSE ByteSize(f[realpath(f, p)].content)

IsPrefix(a, b) == Len(a) <= Len(b) /\ SubSeq(b, 1, Len(a)) = a

\* canonical containment: t, fully resolved, is b (fully resolved) or below it
Contained(f, b, t) == IsPrefix(realpath(f, b), realpath(f, t))

\* os.listdir: the names of the immediate entries
listdir(f, p) ==
    LET r == realpath(f, p) IN
    {q[Len(q)] : q \in {x \in DOMAIN f : Len(x) = Len(r) + 1 /\ IsPrefix(r, x)}}

RECURSIVE SeqOf(_)
SeqOf(S) ==
    IF S = {} THEN <<>>
    ELSE LET x == CHOOSE y \in S : TRUE IN <<x>> \o SeqOf(S \ {x})

(***************************************************************************)
(* Strings built by the tools, and what a tool call leaves behind          *)
(***************************************************************************)
\* an f-string: its template, the path substituted, and the other values
Str(template, path, text, entries, n) ==
    [msg |-> template, path |-> path, text |-> text, entries |-> entries, n |-> n]

PathMsg(template, path) == Str(template, path, <<>>, <<>>, 0)

\* the implementation returned the string m
Ret(f, sp, m) == [raised |-> FALSE, ret |-> m, fs |-> f, spawned |-> sp]

\* the implementation raised the exception e
Raise(f, sp, e) == [raised |-> TRUE, ret |-> PathMsg(e, <<>>), fs |-> f, spawned |-> sp]

ERR_LIST_OUTSIDE == "Error: {directory} is outside the work directory"
ERR_READ_OUTSIDE == "Error: Cannot read {file_path} because it is outside the work directory"
ERR_WRITE_OUTSIDE == "Error: Cannot write to {file_path} because it is outside the work directory"
ERR_RUN_OUTSIDE == "Error: Cannot run {file_path} because it is outside the work directory"

ContainmentErrors ==
    {ERR_LIST_OUTSIDE, ERR_READ_OUTSIDE, ERR_WRITE_OUTSIDE, ERR_RUN_OUTSIDE}

(***************************************************************************)
(* get_files                                                               *)
(***************************************************************************)
\* one line of the listing, or "#raise" when os.path.getsize raises
ListEntry(f, full_path, item) ==
    LET item_path == Append(full_path, item) IN
    IF isfile(f, item_path) THEN <<item, getsize(f, item_path), "is_dir=False">>
    ELSE IF isdir(f, item_path) THEN <<item, getsize(f, item_path), "is_dir=True">>
    ELSE <<item, 0, "#raise">>

get_files(f, sp, work_directory, directory) ==
    IF directory = NonString THEN Raise(f, sp, "TypeError")
    ELSE
    LET full_path == abspath(join(work_directory, directory))
        abs_work_directory == abspath(work_directory)
    IN
    IF commonpath(full_path, abs_work_directory) # abs_work_directory
    THEN Ret(f, sp, PathMsg(ERR_LIST_OUTSIDE, directory))
    ELSE IF ~isdir(f, full_path)
    THEN Ret(f, sp, PathMsg("Error: {directory} is not a valid directory", directory))
    ELSE
    LET lines == {ListEntry(f, full_path, item) : item \in listdir(f, full_path)} IN
    IF \E l \in lines : l[3] = "#raise"
    THEN Ret(f, sp, PathMsg("Error listing files: {e}", directory))
    ELSE Ret(f, sp, Str("{item}: file_size: {size} bytes, is_dir={flag}",
                        directory, <<>>, SeqOf(lines), 0))

(***************************************************************************)
(* get_file_content                                                        *)
(***************************************************************************)
\* f.read(n): the first n characters
ReadChars(content, n) == SubSeq(content, 1, IF Len(content) < n THEN Len(content) ELSE n)

get_file_content(f, sp, work_directory, file_path) ==
    IF file_path = NonString THEN Raise(f, sp, "TypeError")
    ELSE
    LET abs_work_directory == abspath(work_directory)
        abs_file_path == abspath(join(work_directory, file_path))
    IN
    IF commonpath(abs_file_path, abs_work_directory) # abs_work_directory
    THEN Ret(f, sp, PathMsg(ERR_READ_OUTSIDE, file_path))
    ELSE IF ~isfile(f, abs_file_path)
    THEN Ret(f, sp, PathMsg("File not found or is not a normal file: {file_path}", file_path))
    ELSE
    LET content == ReadChars(f[realpath(f, abs_file_path)].content, max_chars) IN
    IF getsize(f, abs_file_path) > max_chars
    THEN Ret(f, sp, Str("{content}...File {file_path} truncated at {max_chars} characters.",
                        file_path, content, <<>>, max_chars))
    ELSE Ret(f, sp, Str("{content}", file_path, content, <<>>, 0))

(***************************************************************************)
(* write_file                                                              *)
(***************************************************************************)
Prefixes(p) == {SubSeq(p, 1, k) : k \in 0..Len(p)}

\* os.makedirs(d, exist_ok=True): [ok, fs]
makedirs(f, d) ==
    LET r == realpath(f, d) IN
    IF exists(f, d) THEN [ok |-> isdir(f, d), fs |-> f]
    ELSE IF r = NoPath \/ \E q \in Prefixes(r) : q \in DOMAIN f /\ f[q].kind # "dir"
    THEN [ok |-> FALSE, fs |-> f]
    ELSE [ok |-> TRUE,
          fs |-> [q \in DOMAIN f \cup Prefixes(r) |-> IF q \in DOMAIN f THEN f[q] ELSE Dir]]

\* open(path, 'w'): creates or truncates the file the path resolves to: [ok, fs]
open_w(f, path) ==
    LET r == realpath(f, path) IN
    IF r = NoPath \/ r = <<>>
       \/ ~(dirname(r) \in DOMAIN f /\ f[dirname(r)].kind = "dir")
       \/ (r \in DOMAIN f /\ f[r].kind # "file")
    THEN [ok |-> FALSE, fs |-> f]
    ELSE [ok |-> TRUE, fs |-> [q \in DOMAIN f \cup {r} |-> IF q = r THEN File(<<>>) ELSE f[q]]]

\* f.write(content) on the file just opened
fwrite(f, path, content) == [f EXCEPT ![realpath(f, path)] = File(content)]

write_file(f, sp, work_directory, file_path, content) ==
    IF file_path = NonString THEN Raise(f, sp, "TypeError")
    ELSE
    LET abs_work_directory == abspath(work_directory)
        abs_file_path == abspath(join(work_directory, file_path))
    IN
    IF commonpath(abs_file_path, abs_work_directory) # abs_work_directory
    THEN Ret(f, sp, PathMsg(ERR_WRITE_OUTSIDE, file_path))
    ELSE
    LET made == IF ~exists(f, abs_file_path)
                THEN makedirs(f, dirname(abs_file_path))
                ELSE [ok |-> TRUE, fs |-> f]
    IN
    IF ~made.ok
    THEN Ret(f, sp, PathMsg("Error: creating directory {e}", file_path))
    ELSE IF exists(made.fs, abs_file_path) /\ isdir(made.fs, abs_file_path)
    THEN Ret(made.fs, sp, PathMsg("Error: {file_path} is a directory, not a file", file_path))
    ELSE
    LET opened == open_w(made.fs, abs_file_path) IN
    IF ~opened.ok \/ content = NonString
    THEN Ret(opened.fs, sp, PathMsg("Error writing to file {file_path}: {e}", file_path))
    ELSE Ret(fwrite(opened.fs, abs_file_path, content), sp,
             Str("Successfully wrote to file: {file_path}, {len(content)} characters.",
                 file_path, <<>>, <<>>, Len(content)))

(***************************************************************************)
(* run_python_file                                                         *)
(***************************************************************************)
\* subprocess.run(command, capture_output=.., stdout=.., stderr=.., timeout=30):
\* CPython refuses capture_output together with stdout or stderr before it
\* creates any process; proc is what the script would do once started
subprocess_run(capture_output, stdout, stderr, proc, sp) ==
    IF capture_output /\ (stdout # "None" \/ stderr # "None")
    THEN [raised |-> TRUE, exc |-> "ValueError", spawned |-> sp, result |-> proc]
    ELSE IF proc.timeout
    THEN [raised |-> TRUE, exc |-> "TimeoutExpired", spawned |-> sp + 1, result |-> proc]
    ELSE [raised |-> FALSE, exc |-> "", spawned |-> sp + 1, result |-> proc]

ERR_RUN == "Error running python file {file_path}: {e}"

\* run_python_file without the test of the extension
run_python_file_AnyExtension(f, sp, work_directory, file_path, args, proc) ==
    IF file_path = NonString THEN Raise(f, sp, "TypeError")
    ELSE
    LET abs_work_directory == abspath(work_directory)
        abs_file_path == abspath(join(work_directory, file_path))
    IN
    IF commonpath(abs_file_path, abs_work_directory) # abs_work_directory
    THEN Ret(f, sp, PathMsg(ERR_RUN_OUTSIDE, file_path))
    ELSE IF ~exists(f, abs_file_path)
    THEN Ret(f, sp, PathMsg("File not found: {file_path}", file_path))
    ELSE IF args = NonString
    THEN Ret(f, sp, Str(ERR_RUN, file_path, <<"TypeError">>, <<>>, 0))
    ELSE
    LET run == subprocess_run(TRUE, "PIPE", "PIPE", proc, sp) IN
    Ret(f, run.spawned, Str(ERR_RUN, file_path, <<run.exc>>, <<>>, 0))

run_python_file(f, sp, work_directory, file_path, args, proc) ==
    IF file_path = NonString THEN Raise(f, sp, "TypeError")
    ELSE
    LET abs_work_directory == abspath(work_directory)
        abs_file_path == abspath(join(work_directory, file_path))
    IN
    IF commonpath(abs_file_path, abs_work_directory) # abs_work_directory
    THEN Ret(f, sp, PathMsg(ERR_RUN_OUTSIDE, file_path))
    ELSE IF ~exists(f, abs_file_path)
    THEN Ret(f, sp, PathMsg("File not found: {file_path}", file_path))
    ELSE IF splitext(file_path) # ".py"
    THEN Ret(f, sp, PathMsg("Error: {file_path} is not a Python file", file_path))
    ELSE IF args = NonString
    THEN Ret(f, sp, Str(ERR_RUN, file_path, <<"TypeError">>, <<>>, 0))
    ELSE
    LET run == subprocess_run(TRUE, "PIPE", "PIPE", proc, sp) IN
    IF run.raised
    THEN Ret(f, run.spawned, Str(ERR_RUN, file_path, <<run.exc>>, <<>>, 0))
    ELSE IF run.result.stdout = <<>> /\ run.result.stderr = <<>> /\ run.result.returncode = 0
    THEN Ret(f, run.spawned,
             PathMsg("Python file executed successfully with no output.", file_path))
    ELSE Ret(f, run.spawned,
             Str("STDOUT:{stdout} STDERR:{stderr} Process exited with code {returncode}",
                 file_path, run.result.stdout \o run.result.stderr, <<>>,
                 run.result.returncode))

(***************************************************************************)
(* call_function, the dispatcher (main.py imports it as dispatch_tool_call)*)
(***************************************************************************)
NoResponse == [key |-> "", value |-> PathMsg("", <<>>)]

\* a types.Content: a turn of the conversation
Content(role, text, calls, name, response) ==
    [role |-> role, text |-> text, calls |-> calls, name |-> name, response |-> response]

function_map == {"get_files_info", "get_file_content", "write_file", "run_python_file"}

\* the parameters of each implementation, and those without a default
Params(name) ==
    CASE name = "get_files_info" -> {"work_directory", "directory"}
      [] name = "get_file_content" -> {"work_directory", "file_path"}
      [] name = "write_file" -> {"work_directory", "file_path", "content"}
      [] name = "run_python_file" -> {"work_directory", "file_path", "args"}

Required(name) ==
    CASE name = "get_files_info" -> {"work_directory"}
      [] name = "get_file_content" -> {"work_directory", "file_path"}
      [] name = "write_file" -> {"work_directory", "file_path", "content"}
      [] name = "run_python_file" -> {"work_directory", "file_path"}

Arg(a, k, default) == IF k \in DOMAIN a THEN a[k] ELSE default

\* function_map[function_name](**args): Python binds the keywords first
Invoke(f, sp, name, a, proc) ==
    IF ~(DOMAIN a \subseteq Params(name)) \/ ~(Required(name) \subseteq DOMAIN a)
    THEN Raise(f, sp, "TypeError")
    ELSE CASE name = "get_files_info" ->
                get_files(f, sp, a["work_directory"], Arg(a, "directory", <<".">>))
           [] name = "get_file_content" ->
                get_file_content(f, sp, a["work_directory"], a["file_path"])
           [] name = "write_file" ->
                write_file(f, sp, a["work_directory"], a["file_path"], a["content"])
           [] name = "run_python_file" ->
                run_python_file(f, sp, a["work_directory"], a["file_path"],
                                Arg(a, "args", <<>>), proc)

\* InjectRoot that keeps a work_directory the request already carries
InjectRoot_KeepsSupplied(args, wd) ==
    [k \in DOMAIN args \cup {"work_directory"} |->
        IF k \in DOMAIN args THEN args[k] ELSE wd]

\* args = dict(function_call_part.args); args["work_directory"] = WORKING_DIR
InjectRoot(args, wd) ==
    [k \in DOMAIN args \cup {"work_directory"} |->
        IF k = "work_directory" THEN wd ELSE args[k]]

\* call_function without the lookup guard: function_map[function_name] raises KeyError
call_function_KeyError(f, sp, wd, req, proc) ==
    LET r == IF req.name \in function_map
             THEN Invoke(f, sp, req.name, InjectRoot(req.args, wd), proc)
             ELSE Raise(f, sp, "KeyError")
    IN
    IF r.raised
    THEN [raised |-> TRUE, fs |-> r.fs, spawned |-> r.spawned, invoked |-> TRUE,
          content |-> Content("raised", FALSE, <<>>, req.name,
                        [key |-> "", value |-> r.ret])]
    ELSE [raised |-> FALSE, fs |-> r.fs, spawned |-> r.spawned, invoked |-> TRUE,
          content |-> Content("tool", FALSE, <<>>, req.name,
                        [key |-> "output", value |-> r.ret])]

call_function(f, sp, wd, req, proc) ==
    IF req.name \notin function_map
    THEN [raised |-> FALSE, fs |-> f, spawned |-> sp, invoked |-> FALSE,
          content |-> Content("function", FALSE, <<>>, req.name,
                        [key |-> "error",
                         value |-> Str("Unknown function: {function_name}",
                                       <<>>, <<req.name>>, <<>>, 0)])]
    ELSE
    LET r == Invoke(f, sp, req.name, InjectRoot(req.args, wd), proc) IN
    IF r.raised
    THEN [raised |-> TRUE, fs |-> r.fs, spawned |-> r.spawned, invoked |-> TRUE,
          content |-> Content("raised", FALSE, <<>>, req.name,
                        [key |-> "", value |-> r.ret])]
    ELSE [raised |-> FALSE, fs |-> r.fs, spawned |-> r.spawned, invoked |-> TRUE,
          content |-> Content("tool", FALSE, <<>>, req.name,
                        [key |-> "output", value |-> r.ret])]

(***************************************************************************)
(* Inputs                                                                  *)
(***************************************************************************)
\* the argument mapping with no entry
NoArgs == [k \in {} |-> <<>>]

Request(name, args) == [name |-> name, args |-> args]

NoRequest == Request("", NoArgs)

\* what a started script does: ProcOutcomes
ProcOutcomes ==
    { [stdout |-> <<>>, stderr |-> <<>>, returncode |-> 0, timeout |-> FALSE],
      [stdout |-> <<"o">>, stderr |-> <<"e">>, returncode |-> 1, timeout |-> FALSE],
      [stdout |-> <<>>, stderr |-> <<>>, returncode |-> 0, timeout |-> TRUE] }

NoProc == [stdout |-> <<>>, stderr |-> <<>>, returncode |-> 0, timeout |-> FALSE]

\* only run_python_file starts a script
ProcsFor(req) ==
    IF req.name = "run_python_file" THEN ProcOutcomes ELSE {NoProc}

\* /data is the usual root; /data/link is a symbolic link
BaseFs(linkTarget) ==
    (<<>> :> Dir) @@ (<<"data">> :> Dir) @@ (<<"data2">> :> Dir)
    @@ (<<"data", "f.txt">> :> File(<<"x", "y", "z">>))
    @@ (<<"data", "a.py">> :> File(<<"e_acute", "y">>))
    @@ (<<"data", "sub">> :> Dir)
    @@ (<<"data", "link">> :> Link(linkTarget))
    @@ (<<"data2", "s.txt">> :> File(<<"s">>))
    @@ (<<"data2", "a.py">> :> File(<<"p">>))

InitialFs == {BaseFs(<<"data2">>), BaseFs(<<"data", "sub">>)}

Roots == {<<"data">>, <<"data", "sub">>, <<"gone", "root">>}

\* the trees and roots a dispatch starts from; the root that does not exist
\* yet is paired with one tree
InitialConfigs ==
    {c \in InitialFs \X Roots : c[2] = <<"gone", "root">> => c[1] = BaseFs(<<"data2">>)}

\* paths written with both contents
RewrittenPaths == {<<"f.txt">>, <<"sub", "n.txt">>, <<".">>}

\* paths the model service may put in a request
ModelPaths ==
    { <<".">>, <<"f.txt">>, <<"a.py">>, <<"sub">>, <<"sub", "n.txt">>,
      <<"new", "n.txt">>, <<"missing.txt">>, <<"f.txt", "n.txt">>,
      <<"..", "data2", "s.txt">>, <<"..", "data2">>,
      <<"/", "data2", "s.txt">>, <<"/", "data", "f.txt">>,
      <<"link">>, <<"link", "s.txt">>, <<"link", "a.py">> }

WriteContents == {<<"x">>, <<"e_acute", "y">>}

ToolRequests ==
    {Request("get_files_info", NoArgs)}
    \cup {Request("get_files_info", [directory |-> p]) : p \in ModelPaths}
    \cup {Request("get_file_content", [file_path |-> p]) : p \in ModelPaths}
    \cup {Request("write_file", [file_path |-> p, content |-> <<"x">>]) : p \in ModelPaths}
    \cup {Request("write_file", [file_path |-> p, content |-> c]) :
            p \in RewrittenPaths, c \in WriteContents}
    \cup {Request("run_python_file", [file_path |-> p]) : p \in ModelPaths}
    \cup {Request("run_python_file", [file_path |-> p, args |-> a]) :
            p \in {<<"a.py">>, <<"link", "a.py">>}, a \in {<<"1">>, NonString}}
    \cup {Request("get_files_info", [directory |-> NonString]),
          Request("get_file_content", [file_path |-> NonString]),
          Request("write_file", [file_path |-> NonString, content |-> <<"x">>]),
          Request("write_file", [file_path |-> <<"f.txt">>, content |-> NonString]),
          Request("run_python_file", [file_path |-> NonString]),
          Request("delete_file", [file_path |-> <<"f.txt">>]),
          Request("get_file_content", NoArgs),
          Request("write_file", [file_path |-> <<"sub", "n.txt">>]),
          Request("get_file_content", [file_path |-> <<"f.txt">>, encoding |-> <<"utf-8">>]),
          Request("get_file_content",
                  [file_path |-> <<"s.txt">>, work_directory |-> <<"data2">>]),
          Request("write_file", [file_path |-> <<"n.txt">>, content |-> <<"x">>,
                                 work_directory |-> <<"data2">>]),
          Request("write_file", [file_path |-> <<"link", "new", "n.txt">>,
                                 content |-> <<"x">>])}

\* the requests the model service makes in a run of the loop
LoopRequests ==
    { Request("delete_file", [file_path |-> <<"f.txt">>]),
      Request("get_file_content", [file_path |-> <<"..", "data2", "s.txt">>]),
      Request("run_python_file", [file_path |-> <<"a.py">>]),
      Request("write_file", [file_path |-> <<"sub", "n.txt">>]) }

RECURSIVE SeqsUpTo(_, _)
SeqsUpTo(S, n) ==
    IF n = 0 THEN {<<>>}
    ELSE SeqsUpTo(S, n - 1) \cup
         {Append(q, x) : q \in {y \in SeqsUpTo(S, n - 1) : Len(y) = n - 1}, x \in S}

(***************************************************************************)
(* run_agent_loop and main                                                 *)
(***************************************************************************)
UserTurn == Content("user", TRUE, <<>>, "", NoResponse)

\* what generate_content did: status is "response", "error" or "none"
Reply(status, has_candidate, text, calls) ==
    [status |-> status, has_candidate |-> has_candidate, text |-> text, calls |-> calls]

\* what call_function did, as its caller sees it
Outcome(r) == [raised |-> r.raised, invoked |-> r.invoked, content |-> r.content]

\* before the first call_function
NoResult ==
    [raised |-> FALSE, invoked |-> FALSE,
     content |-> Content("", FALSE, <<>>, "", NoResponse)]

Line(template, value) == <<template, value>>

FINAL_RESPONSE == "Final response: {model_response.text}"
GENERATION_ERROR == "Error during generation: {exc}"
MAX_ITERATIONS_NOTICE == "Max iterations reached without completion, exiting..."

\* the for loop has no iteration left: its else clause prints, run_agent_loop
\* and main return, and the interpreter exits with status 0
LoopExhausted(out) ==
    /\ printed' = Append(out, Line(MAX_ITERATIONS_NOTICE, ""))
    /\ pc' = "exited"
    /\ exitStatus' = 0

\* break: run_agent_loop and main return, and the interpreter exits with status 0
Break(out) ==
    /\ printed' = out
    /\ pc' = "exited"
    /\ exitStatus' = 0

\* the body of the for loop is done for this iteration
EndOfIteration(out) ==
    IF iter' = max_iterations
    THEN LoopExhausted(out)
    ELSE /\ printed' = out
         /\ pc' = "generate"
         /\ exitStatus' = exitStatus

\* Generate with the two tests swapped: function calls are handled before the text
Generate_CallsFirst(has_candidate, text, calls) ==
    /\ pc = "generate"
    /\ iter < max_iterations
    /\ iter' = iter + 1
    /\ lastReply' = Reply("response", has_candidate, text, calls)
    /\ conversation_history' =
          IF has_candidate
          THEN Append(conversation_history, Content("model", text, calls, "", NoResponse))
          ELSE conversation_history
    /\ IF calls # <<>>
       THEN /\ pending' = calls
            /\ pc' = "dispatch"
            /\ UNCHANGED <<printed, exitStatus>>
       ELSE IF text
       THEN /\ Break(Append(printed, Line(FINAL_RESPONSE, "text")))
            /\ pending' = <<>>
       ELSE /\ pending' = <<>>
            /\ EndOfIteration(printed)
    /\ UNCHANGED toolVars

\* Generate that starts the log again from the user's turn
Generate_RestartsLog(has_candidate, text, calls) ==
    /\ pc = "generate"
    /\ iter < max_iterations
    /\ iter' = iter + 1
    /\ lastReply' = Reply("response", has_candidate, text, calls)
    /\ conversation_history' =
          IF has_candidate
          THEN <<UserTurn, Content("model", text, calls, "", NoResponse)>>
          ELSE conversation_history
    /\ IF text
       THEN /\ Break(Append(printed, Line(FINAL_RESPONSE, "text")))
            /\ pending' = <<>>
       ELSE IF calls # <<>>
       THEN /\ pending' = calls
            /\ pc' = "dispatch"
            /\ UNCHANGED <<printed, exitStatus>>
       ELSE /\ pending' = <<>>
            /\ EndOfIteration(printed)
    /\ UNCHANGED toolVars

\* generate_content returns a response: has_candidate says whether it carries
\* a candidate, text whether it has finished text, calls its function calls
Generate(has_candidate, text, calls) ==
    /\ pc = "generate"
    /\ iter < max_iterations
    /\ iter' = iter + 1
    /\ lastReply' = Reply("response", has_candidate, text, calls)
    /\ conversation_history' =
          IF has_candidate
          THEN Append(conversation_history, Content("model", text, calls, "", NoResponse))
          ELSE conversation_history
    /\ IF text
       THEN /\ Break(Append(printed, Line(FINAL_RESPONSE, "text")))
            /\ pending' = <<>>
       ELSE IF calls # <<>>
       THEN /\ pending' = calls
            /\ pc' = "dispatch"
            /\ UNCHANGED <<printed, exitStatus>>
       ELSE /\ pending' = <<>>
            /\ EndOfIteration(printed)
    /\ UNCHANGED toolVars

GenerateOk ==
    \/ \E text \in BOOLEAN, calls \in SeqsUpTo(LoopRequests, MaxCallsPerResponse) :
          Generate(TRUE, text, calls)
    \/ Generate(FALSE, FALSE, <<>>)

\* GenerateFails with continue in place of break: the next iteration calls again
GenerateFails_Continue ==
    /\ pc = "generate"
    /\ iter < max_iterations
    /\ iter' = iter + 1
    /\ lastReply' = Reply("error", FALSE, FALSE, <<>>)
    /\ EndOfIteration(Append(printed, Line(GENERATION_ERROR, "ServiceError")))
    /\ UNCHANGED <<conversation_history, pending>>
    /\ UNCHANGED toolVars

\* generate_content raises: the except clause prints and breaks
GenerateFails ==
    /\ pc = "generate"
    /\ iter < max_iterations
    /\ iter' = iter + 1
    /\ lastReply' = Reply("error", FALSE, FALSE, <<>>)
    /\ Break(Append(printed, Line(GENERATION_ERROR, "ServiceError")))
    /\ UNCHANGED <<conversation_history, pending>>
    /\ UNCHANGED toolVars

\* Dispatch that takes the function calls from the last one backwards
Dispatch_LastFirst ==
    /\ pc = "dispatch"
    /\ pending # <<>>
    /\ \E proc \in ProcsFor(pending[Len(pending)]) :
         LET req == pending[Len(pending)]
             r == call_function(fs, spawned, root, req, proc)
             out == Append(printed, Line("Calling function: {name}", req.name))
             rest == SubSeq(pending, 1, Len(pending) - 1)
         IN
         /\ fs' = r.fs
         /\ spawned' = r.spawned
         /\ ncalls' = ncalls + 1
         /\ lastReq' = req
         /\ lastRes' = Outcome(r)
         /\ lastProc' = proc
         /\ iter' = iter
         /\ UNCHANGED <<root, lastReply>>
         /\ IF r.raised
            THEN /\ Break(Append(out, Line(GENERATION_ERROR, r.content.response.value.msg)))
                 /\ pending' = <<>>
                 /\ UNCHANGED conversation_history
            ELSE /\ conversation_history' = Append(conversation_history, r.content)
                 /\ pending' = rest
                 /\ IF rest = <<>>
                    THEN EndOfIteration(out)
                    ELSE /\ printed' = out
                         /\ pc' = "dispatch"
                         /\ exitStatus' = exitStatus

\* one pass of the inner for loop: dispatch_tool_call(function_call), then append
Dispatch ==
    /\ pc = "dispatch"
    /\ pending # <<>>
    /\ \E proc \in ProcsFor(Head(pending)) :
         LET req == Head(pending)
             r == call_function(fs, spawned, root, req, proc)
             out == Append(printed, Line("Calling function: {name}", req.name))
         IN
         /\ fs' = r.fs
         /\ spawned' = r.spawned
         /\ ncalls' = ncalls + 1
         /\ lastReq' = req
         /\ lastRes' = Outcome(r)
         /\ lastProc' = proc
         /\ iter' = iter
         /\ UNCHANGED <<root, lastReply>>
         /\ IF r.raised
            THEN /\ Break(Append(out, Line(GENERATION_ERROR, r.content.response.value.msg)))
                 /\ pending' = <<>>
                 /\ UNCHANGED conversation_history
            ELSE /\ conversation_history' = Append(conversation_history, r.content)
                 /\ pending' = Tail(pending)
                 /\ IF Tail(pending) = <<>>
                    THEN EndOfIteration(out)
                    ELSE /\ printed' = out
                         /\ pc' = "dispatch"
                         /\ exitStatus' = exitStatus

LoopInit ==
    /\ conversation_history = <<UserTurn>>
    /\ pc = "generate"
    /\ iter = 0
    /\ pending = <<>>
    /\ printed = <<>>
    /\ exitStatus = -1
    /\ lastReply = Reply("none", FALSE, FALSE, <<>>)

ToolInit ==
    /\ spawned = 0
    /\ ncalls = 0
    /\ lastReq = NoRequest
    /\ lastRes = NoResult
    /\ lastProc = NoProc

Init ==
    /\ fs = BaseFs(<<"data2">>)
    /\ root = <<"data">>
    /\ ToolInit
    /\ LoopInit

Next == GenerateOk \/ GenerateFails \/ Dispatch

Spec == Init /\ [][Next]_vars

(***************************************************************************)
(* The dispatcher on its own, on every request and several filesystems     *)
(***************************************************************************)
ToolCall ==
    /\ ncalls < MaxToolCalls
    /\ \E req \in ToolRequests : \E proc \in ProcsFor(req) :
         LET r == call_function(fs, spawned, root, req, proc) IN
         /\ fs' = r.fs
         /\ spawned' = r.spawned
         /\ ncalls' = ncalls + 1
         /\ lastReq' = req
         /\ lastRes' = Outcome(r)
         /\ lastProc' = proc
    /\ UNCHANGED root
    /\ UNCHANGED loopVars

ToolsInit ==
    /\ \E c \in InitialConfigs :
         /\ fs = c[1]
         /\ root = c[2]
    /\ ToolInit
    /\ LoopInit

ToolNext == ToolCall

ToolSpec == ToolsInit /\ [][ToolNext]_vars

(***************************************************************************)
(* Vocabulary of the properties                                            *)
(***************************************************************************)
\* the step is one invocation of call_function
Dispatched == ncalls' = ncalls + 1

\* the request names a registered tool and binds its parameters with strings
WellFormed(req) ==
    /\ req.name \in function_map
    /\ DOMAIN req.args \subseteq Params(req.name) \ {"work_directory"}
    /\ Required(req.name) \ {"work_directory"} \subseteq DOMAIN req.args
    /\ \A k \in DOMAIN req.args \cap {"directory", "file_path"} : req.args[k] # NonString

\* the caller-supplied relative path of a well-formed request
PathOf(req) ==
    IF req.name = "get_files_info" THEN Arg(req.args, "directory", <<".">>)
    ELSE req.args["file_path"]

\* the canonical resolution of the request's path is neither the root nor below it
Escapes(f, b, req) == ~Contained(f, b, abspath(join(b, PathOf(req))))

Returned == lastRes.content.response.value

SuccessTemplates ==
    { "{item}: file_size: {size} bytes, is_dir={flag}",
      "{content}",
      "{content}...File {file_path} truncated at {max_chars} characters.",
      "Successfully wrote to file: {file_path}, {len(content)} characters.",
      "Python file executed successfully with no output.",
      "STDOUT:{stdout} STDERR:{stderr} Process exited with code {returncode}" }

LastLine == printed[Len(printed)]
Completed == pc = "exited" /\ printed # <<>> /\ LastLine[1] = FINAL_RESPONSE
Aborted == pc = "exited" /\ printed # <<>> /\ LastLine[1] = GENERATION_ERROR
Exhausted == pc = "exited" /\ printed # <<>> /\ LastLine[1] = MAX_ITERATIONS_NOTICE

LastTurn == conversation_history[Len(conversation_history)]

(***************************************************************************)
(* C1: a call of any of the four tools whose path resolves, canonically,   *)
(* outside the boundary root returns the containment error, changes no     *)
(* file or directory and spawns no subprocess.                             *)
(***************************************************************************)
C1_EscapingPathRejected ==
    [][ (Dispatched /\ WellFormed(lastReq') /\ Escapes(fs, root, lastReq'))
        => /\ ~lastRes'.raised
           /\ lastRes'.content.response.value.msg \in ContainmentErrors
           /\ fs' = fs
           /\ spawned' = spawned ]_vars

(***************************************************************************)
(* C2: every result call_function hands back has exactly one of the keys   *)
(* output and error: output when the tool succeeded, error when it failed. *)
(***************************************************************************)
C2_FailedCallComesBackAsError ==
    (ncalls > 0 /\ ~lastRes.raised)
    => /\ lastRes.content.response.key \in {"output", "error"}
       /\ (lastRes.content.response.key = "output") <=> (Returned.msg \in SuccessTemplates)

(***************************************************************************)
(* C3: for every request, whatever its tool name and argument mapping,     *)
(* call_function returns a ToolResult: no exception escapes to its caller. *)
(***************************************************************************)
C3_NoExceptionEscapes ==
    ncalls > 0 => (~lastRes.raised /\ lastRes.content.response.key \in {"output", "error"})

(***************************************************************************)
(* C4: a tool-level error of any kind never aborts the loop: the result    *)
(* turn of the call is appended and the loop goes on; only a failure of    *)
(* the model-service call produces the abort.                              *)
(***************************************************************************)
ToolError(res) ==
    res.raised \/ res.content.response.value.msg \notin SuccessTemplates

C4_ToolErrorNeverAborts ==
    [][ /\ (Dispatched /\ ToolError(lastRes'))
           => /\ ~Aborted'
              /\ lastRes'.content.role \in {"tool", "function"}
              /\ conversation_history' = Append(conversation_history, lastRes'.content)
        /\ Aborted' => lastReply'.status = "error" ]_vars

(***************************************************************************)
(* C5: a request for an unregistered tool name gets {error: ...} naming    *)
(* the tool, invokes no implementation, touches neither the filesystem nor *)
(* a subprocess, has its result turn appended, and the loop goes on.       *)
(***************************************************************************)
C5_UnknownToolContinues ==
    [][ (Dispatched /\ lastReq'.name \notin function_map)
        => /\ ~lastRes'.raised
           /\ ~lastRes'.invoked
           /\ lastRes'.content.response.key = "error"
           /\ lastRes'.content.response.value.text = <<lastReq'.name>>
           /\ fs' = fs
           /\ spawned' = spawned
           /\ conversation_history' = Append(conversation_history, lastRes'.content)
           /\ \/ pc' = "dispatch"
              \/ pc' = "generate"
              \/ (Exhausted' /\ iter' = max_iterations) ]_vars

C5_Witness ==
    /\ ncalls > 0
    /\ lastReq.name \notin function_map
    /\ lastRes.content.response.key = "error"
    /\ LastTurn = lastRes.content
    /\ pc = "generate"

(***************************************************************************)
(* C6: when every model-service call returns a response and none carries   *)
(* finished text, the loop makes exactly max_iterations calls and ends in  *)
(* the budget-exhausted state, never earlier, later or Completed.          *)
(***************************************************************************)
NoTextEver ==
    \A i \in DOMAIN conversation_history :
        conversation_history[i].role = "model" => ~conversation_history[i].text

NoServiceFailure ==
    \A i \in DOMAIN printed : printed[i] # Line(GENERATION_ERROR, "ServiceError")

C6_NoTextRunsWholeBudget ==
    /\ iter <= max_iterations
    /\ (pc = "exited" /\ NoTextEver /\ NoServiceFailure)
       => (iter = max_iterations /\ Exhausted)

(***************************************************************************)
(* C7: a response with finished text has its turn appended and completes   *)
(* the loop: none of its tool calls is dispatched, no model-service call   *)
(* follows, and the budget-exhausted notice is not printed.                *)
(***************************************************************************)
TextArrives == iter' = iter + 1 /\ lastReply'.status = "response" /\ lastReply'.text

C7_TextCompletes ==
    [][ /\ TextArrives
           => /\ conversation_history' =
                    Append(conversation_history,
                           Content("model", TRUE, lastReply'.calls, "", NoResponse))
              /\ Completed'
              /\ ncalls' = ncalls
              /\ fs' = fs
              /\ spawned' = spawned
              /\ \A i \in DOMAIN printed' : printed'[i][1] # MAX_ITERATIONS_NOTICE
        /\ ~Completed ]_vars

C7_Witness ==
    /\ Completed
    /\ lastReply.text
    /\ lastReply.calls # <<>>
    /\ LastTurn.role = "model"
    /\ iter < max_iterations

(***************************************************************************)
(* C8: at every model-service call after the first and at termination,     *)
(* every tool call of a model turn of the log has a matching tool-result   *)
(* turn (same name, one per call) later in the log.                        *)
(***************************************************************************)
ToolNames == function_map \cup {r.name : r \in LoopRequests}

CallsFrom(h, i, nm) ==
    Cardinality({jk \in (i..Len(h)) \X (1..MaxCallsPerResponse) :
                    /\ h[jk[1]].role = "model"
                    /\ jk[2] <= Len(h[jk[1]].calls)
                    /\ h[jk[1]].calls[jk[2]].name = nm})

ResultsAfter(h, i, nm) ==
    Cardinality({j \in (i + 1)..Len(h) :
                    h[j].role \in {"tool", "function"} /\ h[j].name = nm})

AllCallsAnswered(h) ==
    \A i \in DOMAIN h : h[i].role = "model"
        => \A nm \in ToolNames : ResultsAfter(h, i, nm) >= CallsFrom(h, i, nm)

C8_EveryCallHasResult ==
    ((pc = "generate" /\ iter > 0) \/ pc = "exited")
    => AllCallsAnswered(conversation_history)

(***************************************************************************)
(* C9: a failed model-service call aborts the loop in that iteration: no   *)
(* retry, no later model-service call, no dispatch, the log as it was      *)
(* before the call, and the error printed.                                 *)
(***************************************************************************)
ServiceFails == iter' = iter + 1 /\ lastReply'.status = "error"

C9_ServiceFailureAborts ==
    [][ /\ ServiceFails
           => /\ Aborted'
              /\ printed' = Append(printed, Line(GENERATION_ERROR, "ServiceError"))
              /\ conversation_history' = conversation_history
              /\ ncalls' = ncalls
              /\ fs' = fs
              /\ spawned' = spawned
        /\ ~Aborted ]_vars

C9_Witness ==
    /\ Aborted
    /\ lastReply.status = "error"
    /\ iter = max_iterations
    /\ ncalls > 0
    /\ Len(conversation_history) > 2

(***************************************************************************)
(* C10: the process exits with status zero if and only if the loop ended   *)
(* in Completed; a service-error abort and budget exhaustion print         *)
(* different notices and exit non-zero.                                    *)
(***************************************************************************)
C10_ExitStatusTellsOutcome ==
    pc = "exited"
    => /\ (exitStatus = 0) <=> Completed
       /\ Aborted => (exitStatus # 0 /\ LastLine[1] = GENERATION_ERROR)
       /\ Exhausted => (exitStatus # 0 /\ LastLine[1] = MAX_ITERATIONS_NOTICE)


(***************************************************************************)
(* Vocabulary of the statements about single tools.                        *)
(***************************************************************************)
\* the absolute path the tools compute for the request's path
Target(b, req) == abspath(join(b, PathOf(req)))

\* the containment check of the tools accepts the request's path
Accepted(b, req) == commonpath(Target(b, req), abspath(b)) = abspath(b)

CONTENT_WHOLE == "{content}"
CONTENT_TRUNCATED == "{content}...File {file_path} truncated at {max_chars} characters."
WROTE == "Successfully wrote to file: {file_path}, {len(content)} characters."

(***************************************************************************)
(* C11: get_file_content on a regular file inside the root returns the     *)
(* whole content with nothing appended when the file has at most max_chars *)
(* characters, and the first max_chars characters followed by the          *)
(* truncation marker naming max_chars when it has more; the quantity       *)
(* tested against the cap is the number of characters returned.            *)
(***************************************************************************)
C11_CapCountsCharacters ==
    (/\ ncalls > 0
     /\ lastReq.name = "get_file_content"
     /\ WellFormed(lastReq)
     /\ Accepted(root, lastReq)
     /\ ~Escapes(fs, root, lastReq)
     /\ isfile(fs, Target(root, lastReq)))
    => LET c == fs[realpath(fs, Target(root, lastReq))].content IN
       /\ ~lastRes.raised
       /\ Returned = IF Len(c) <= max_chars
                     THEN Str(CONTENT_WHOLE, PathOf(lastReq), c, <<>>, 0)
                     ELSE Str(CONTENT_TRUNCATED, PathOf(lastReq),
                              SubSeq(c, 1, max_chars), <<>>, max_chars)

(***************************************************************************)
(* C12: after write_file has succeeded on a path inside the root with a    *)
(* content of at most max_chars characters, get_file_content on the same   *)
(* path returns exactly that content, without a truncation marker,         *)
(* whatever the file held before.                                          *)
(***************************************************************************)
C12_WriteThenReadRoundTrip ==
    [][ (/\ Dispatched
         /\ lastReq.name = "write_file"
         /\ WellFormed(lastReq)
         /\ ~lastRes.raised
         /\ Returned.msg = WROTE
         /\ ~Escapes(fs, root, lastReq)
         /\ Len(lastReq.args["content"]) <= max_chars
         /\ lastReq'.name = "get_file_content"
         /\ WellFormed(lastReq')
         /\ PathOf(lastReq') = PathOf(lastReq))
        => /\ ~lastRes'.raised
           /\ lastRes'.content.response.value =
                  Str(CONTENT_WHOLE, PathOf(lastReq), lastReq.args["content"], <<>>, 0) ]_vars

(***************************************************************************)
(* C13: get_files_info on a directory inside the root reports each of its  *)
(* immediate entries exactly once and nothing else, with is_dir true       *)
(* exactly for directories, size 0 for every directory and the byte size   *)
(* for every file.                                                         *)
(***************************************************************************)
C13_ListingIsExact ==
    (/\ ncalls > 0
     /\ lastReq.name = "get_files_info"
     /\ WellFormed(lastReq)
     /\ Accepted(root, lastReq)
     /\ ~Escapes(fs, root, lastReq)
     /\ isdir(fs, Target(root, lastReq)))
    => LET d == Target(root, lastReq)
           items == listdir(fs, d)
           expected ==
               {<<i, IF isdir(fs, d \o <<i>>) THEN 0 ELSE getsize(fs, d \o <<i>>),
                  IF isdir(fs, d \o <<i>>) THEN "is_dir=True" ELSE "is_dir=False">> :
                i \in items}
       IN
       /\ ~lastRes.raised
       /\ Len(Returned.entries) = Cardinality(items)
       /\ {Returned.entries[k] : k \in DOMAIN Returned.entries} = expected


(***************************************************************************)
(* C14 as stated: run_python_file on a path inside the root whose          *)
(* extension is not .py, whether or not the file exists, returns the       *)
(* unsupported-extension error and creates no subprocess.                  *)
(***************************************************************************)
NOT_PYTHON == "Error: {file_path} is not a Python file"
RUN_NOT_FOUND == "File not found: {file_path}"

NonScriptRun(f, b, req) ==
    /\ req.name = "run_python_file"
    /\ WellFormed(req)
    /\ Accepted(b, req)
    /\ ~Escapes(f, b, req)
    /\ splitext(PathOf(req)) # ".py"

C14_NonScriptIsUnsupported ==
    [][ (Dispatched /\ NonScriptRun(fs, root, lastReq'))
        => /\ ~lastRes'.raised
           /\ lastRes'.content.response.value = PathMsg(NOT_PYTHON, PathOf(lastReq'))
           /\ spawned' = spawned ]_vars

(***************************************************************************)
(* C14, amended: run_python_file on a path inside the root whose extension *)
(* is not .py rejects the call and creates no subprocess; the error is the *)
(* not-found error when nothing exists at the path and the                 *)
(* unsupported-extension error when something does.  Both tests come       *)
(* before the subprocess is started.                                       *)
(***************************************************************************)
C14_NonScriptNeverRuns ==
    [][ (Dispatched /\ NonScriptRun(fs, root, lastReq'))
        => /\ ~lastRes'.raised
           /\ lastRes'.content.response.value =
                  PathMsg(IF exists(fs, Target(root, lastReq')) THEN NOT_PYTHON
                          ELSE RUN_NOT_FOUND, PathOf(lastReq'))
           /\ spawned' = spawned
           /\ fs' = fs ]_vars

\* a non-script path at which nothing exists has been answered with not-found, and
\* the root exists
C14_Witness ==
    /\ ncalls > 0
    /\ NonScriptRun(fs, root, lastReq)
    /\ isdir(fs, root)
    /\ ~exists(fs, Target(root, lastReq))
    /\ Returned = PathMsg(RUN_NOT_FOUND, PathOf(lastReq))


(***************************************************************************)
(* Vocabulary of C15 and C17: a request to run an existing .py file inside *)
(* the root with a list of strings (or nothing) as arguments.              *)
(***************************************************************************)
ScriptRun(f, b, req) ==
    /\ req.name = "run_python_file"
    /\ WellFormed(req)
    /\ Accepted(b, req)
    /\ ~Escapes(f, b, req)
    /\ isfile(f, Target(b, req))
    /\ splitext(PathOf(req)) = ".py"
    /\ Arg(req.args, "args", <<>>) # NonString

NO_OUTPUT == "Python file executed successfully with no output."
RUN_OUTPUT == "STDOUT:{stdout} STDERR:{stderr} Process exited with code {returncode}"

(***************************************************************************)
(* C15: when the script that run_python_file starts is still running at    *)
(* the timeout, the subprocess is started and ended by the call, the call  *)
(* returns the timeout error instead of raising, and the loop goes on with *)
(* that result appended to the conversation as a tool-result turn.         *)
(***************************************************************************)
C15_TimeoutIsReported ==
    [][ (Dispatched /\ ScriptRun(fs, root, lastReq') /\ lastProc'.timeout)
        => /\ ~lastRes'.raised
           /\ spawned' = spawned + 1
           /\ lastRes'.content.response.value =
                  Str(ERR_RUN, PathOf(lastReq'), <<"TimeoutExpired">>, <<>>, 0)
           /\ conversation_history' = Append(conversation_history, lastRes'.content)
           /\ ~Aborted' ]_vars

(***************************************************************************)
(* C17: run_python_file on an existing .py file inside the root starts one *)
(* subprocess, and when the script ends in time the result is one text     *)
(* with its standard output and standard error when not empty and its exit *)
(* code when not zero, or the fixed no-output message when there is none   *)
(* of the three.                                                           *)
(***************************************************************************)
C17_ScriptIsRun ==
    [][ (Dispatched /\ ScriptRun(fs, root, lastReq'))
        => /\ ~lastRes'.raised
           /\ spawned' = spawned + 1
           /\ ~lastProc'.timeout =>
                lastRes'.content.response.value =
                    IF /\ lastProc'.stdout = <<>>
                       /\ lastProc'.stderr = <<>>
                       /\ lastProc'.returncode = 0
                    THEN PathMsg(NO_OUTPUT, PathOf(lastReq'))
                    ELSE Str(RUN_OUTPUT, PathOf(lastReq'),
                             lastProc'.stdout \o lastProc'.stderr, <<>>,
                             lastProc'.returncode) ]_vars


(***************************************************************************)
(* C18: write_file creates no directory outside the root: whatever the     *)
(* root, existing or not, and whatever path the containment check accepts, *)
(* every directory the call creates is the root or lies below it; and when *)
(* the target exists and is a directory the call returns the not-a-file    *)
(* error and leaves the filesystem unchanged.                              *)
(***************************************************************************)
IS_DIRECTORY == "Error: {file_path} is a directory, not a file"

\* the directories that exist after the step and did not exist before it
CreatedDirs == {q \in DOMAIN fs' \ DOMAIN fs : fs'[q].kind = "dir"}

C18_NoDirectoryOutsideRoot ==
    [][ (/\ Dispatched
         /\ lastReq'.name = "write_file"
         /\ WellFormed(lastReq')
         /\ Accepted(root, lastReq'))
        => /\ \A q \in CreatedDirs : IsPrefix(realpath(fs, root), q)
           /\ isdir(fs, Target(root, lastReq')) =>
                /\ ~lastRes'.raised
                /\ lastRes'.content.response.value =
                       PathMsg(IS_DIRECTORY, PathOf(lastReq'))
                /\ fs' = fs ]_vars


(***************************************************************************)
(* C16: the function calls c1..cn of a response without text are          *)
(* dispatched one at a time in the order of the response; when ci is       *)
(* dispatched the log ends with the model's turn and the result turns of   *)
(* c1..c(i-1) in that order, its own result turn is appended by the same   *)
(* step, and the next call of the model service finds the model's turn     *)
(* followed by all n result turns in order.                                *)
(***************************************************************************)
\* the log h ends with the model's turn carrying cs and the results of cs[1..k]
AnsweredInOrder(h, cs, k) ==
    /\ Len(h) >= k + 1
    /\ h[Len(h) - k] = Content("model", FALSE, cs, "", NoResponse)
    /\ \A j \in 1..k :
          /\ h[Len(h) - k + j].role \in {"tool", "function"}
          /\ h[Len(h) - k + j].name = cs[j].name

C19_LogIsAppendOnly ==
    [][ /\ IsPrefix(conversation_history, conversation_history')
        /\ conversation_history'[1] = UserTurn
        /\ conversation_history' # conversation_history =>
             /\ Len(conversation_history') = Len(conversation_history) + 1
             /\ \/ /\ iter' = iter + 1
                   /\ lastReply'.status = "response"
                   /\ lastReply'.has_candidate
                   /\ conversation_history'[Len(conversation_history')] =
                          Content("model", lastReply'.text, lastReply'.calls, "", NoResponse)
                \/ /\ Dispatched
                   /\ ~lastRes'.raised
                   /\ conversation_history'[Len(conversation_history')] =
                          lastRes'.content ]_vars

\* a finished run whose log holds the user's turn, two turns of the model and a
\* result turn
C19_Witness ==
    /\ pc = "exited"
    /\ Len(conversation_history) >= 4
    /\ conversation_history[1] = UserTurn
    /\ \E i \in 2..Len(conversation_history) :
          conversation_history[i].role \in {"tool", "function"}
    /\ Cardinality({i \in DOMAIN conversation_history :
                       conversation_history[i].role = "model"}) >= 2


(***************************************************************************)
(* C20: the root a tool works under is the dispatcher's configured root,   *)
(* never one the model chose: a request whose arguments carry a            *)
(* work_directory entry has its tool invoked with the configured root in   *)
(* that place, so its result and its effect are those of the same request  *)
(* without the entry.                                                      *)
(***************************************************************************)
SuppliesRoot(req) == req.name \in function_map /\ "work_directory" \in DOMAIN req.args

\* the request without the work_directory the model supplied
WithoutRoot(req) ==
    Request(req.name, [k \in DOMAIN req.args \ {"work_directory"} |-> req.args[k]])

C20_RootIsTheConfiguredOne ==
    [][ (Dispatched /\ SuppliesRoot(lastReq'))
        => LET direct == Invoke(fs, spawned, lastReq'.name,
                                [lastReq'.args EXCEPT !["work_directory"] = root],
                                lastProc')
               plain == call_function(fs, spawned, root, WithoutRoot(lastReq'), lastProc')
           IN /\ lastRes'.raised = direct.raised
              /\ lastRes'.content.response.value = direct.ret
              /\ lastRes' = Outcome(plain)
              /\ fs' = plain.fs
              /\ spawned' = plain.spawned
              /\ \A w \in Roots :
                    call_function(fs, spawned, root,
                                  Request(lastReq'.name,
                                          [lastReq'.args EXCEPT !["work_directory"] = w]),
                                  lastProc') = plain ]_vars

\* a write whose request named another root has written under the configured
\* root and left the named one alone
C20_Witness ==
    /\ ncalls > 0
    /\ SuppliesRoot(lastReq)
    /\ lastReq.name = "write_file"
    /\ lastReq.args["work_directory"] # root
    /\ Returned.msg = WROTE
    /\ isfile(fs, Target(root, WithoutRoot(lastReq)))
    /\ ~exists(fs, Target(lastReq.args["work_directory"], WithoutRoot(lastReq)))

====
